---- MODULE Spec2Model ----
(***************************************************************************)
(* Instance lifecycle handlers of lodestone_core                           *)
(* (src/src/handlers/instance.rs): get_instance_list, get_instance_info,   *)
(* create_minecraft_instance with its detached creation task, and          *)
(* delete_instance, over the shared AppState: the instance registry        *)
(* (state.instances, a mutex-guarded map), the port allocator              *)
(* (state.port_allocator, a mutex-guarded set), the event broadcaster and  *)
(* the filesystem under PATH_TO_INSTANCES.                                 *)
(*                                                                         *)
(* Every .await on a mutex is a step of its own, so a task can be seen     *)
(* waiting for a lock while it holds another one.                          *)
(***************************************************************************)
EXTENDS Integers, Sequences, FiniteSets, TLC

\* ------------------------------------------------------------------ bounds
MaxCreate == 2          \* create requests that pass validation
MaxDelete == 2          \* delete requests that pass authorization
MaxUuid == 3            \* uuids InstanceUuid::default() can draw
MaxRegen == 2           \* uuids one registry scan may regenerate
MaxPort == 2            \* ports a client may ask for
MaxPlayers == 1         \* players on an instance, and the largest max count

\* ------------------------------------------------------- program constants
NameLimit == 100        \* name.len() > 100 is a MalformedRequest
FirstPrefix == 8        \* &uuid.to_string()[0..8] of SetupConfig::from
RegenPrefix == 5        \* &setup_config.uuid.to_string()[0..5] of the scan

Creations == 1..MaxCreate
Deleters == 1..MaxDelete
Uuids == 0..(MaxUuid - 1)
Ports == 1..MaxPort

CTask(c) == <<"create", c>>
DTask(d) == <<"delete", d>>
NoTask == <<"none", 0>>
Tasks == {CTask(c) : c \in Creations} \cup {DTask(d) : d \in Deleters}

\* ------------------------------------------------------------- requesters
Tokens == {"owner_token", "member_token", "bad_token"}
NoRequester == "nobody"

\* users_manager.try_auth(&token): Some(requester) or None
try_auth(token) ==
    CASE token = "owner_token" -> "owner"
      [] token = "member_token" -> "member"
      [] OTHER -> NoRequester

\* The instances the member was granted ViewInstance for.
MemberViewable == {u \in Uuids : u % 2 = 0}

\* requester.can_perform_action(&action), an action being <<kind>> or
\* <<kind, uuid>>
can_perform_action(requester, action) ==
    CASE requester = "owner" -> TRUE
      [] requester = "member" ->
            action[1] = "ViewInstance" /\ action[2] \in MemberViewable
      [] OTHER -> FALSE

\* ------------------------------------------------------------------ names
LongName == [i \in 1..(NameLimit + 1) |-> "a"]
RawNames == {<<"a">>, <<"a", "/">>, <<"/">>, <<>>, LongName}

IsSafeChar(ch) == ch # "/"

\* sanitize_filename::sanitize: the characters unsafe in a file name are dropped
sanitize(name) == SelectSeq(name, IsSafeChar)

\* ------------------------------------------------------------------ paths
\* uuid.to_string()[0..n]: a uuid is a number here, its leading hex digits the
\* number without its low digits; uuids that agree on the first 8 agree on the
\* first 5.
UuidPrefix(uuid, n) ==
    IF n = FirstPrefix THEN uuid \div 2 ELSE uuid \div 4

\* PATH_TO_INSTANCES.join(format!("{}-{}", config.name, &uuid[0..8]))
FirstPath(name, uuid) == <<name, UuidPrefix(uuid, FirstPrefix)>>

\* PATH_TO_INSTANCES.join(format!("{}-{}", name_with_uuid, &uuid[0..5])) with
\* name_with_uuid = format!("{}-{}", name, &uuid[0..5])
RegeneratedPath(name, uuid) ==
    <<name, UuidPrefix(uuid, RegenPrefix), UuidPrefix(uuid, RegenPrefix)>>

VARIABLES
    instances,        \* state.instances: uuid -> instance handle
    instancesLock,    \* the task holding the state.instances mutex
    port_allocator,   \* state.port_allocator: the ports in use
    portLock,         \* the task holding the state.port_allocator mutex
    dirs,             \* instance directories on disk
    markers,          \* directories holding a .lodestone_config
    events,           \* what each task sent on event_broadcaster, in order
    cpc,              \* where each create request / creation task stands
    setup_config,     \* each creation's SetupConfig and requester
    minecraft_instance, \* the handle each creation's driver returned
    dpc,              \* where each delete request stands
    dreq,             \* each delete request's uuid, requester, captured values
    response,         \* the response the last step returned to a client, if any
    port_calls,       \* the calls each task made on the port allocator
    usedUuids,        \* the uuids drawn so far
    now               \* the latest creation_time handed out

vars == <<instances, instancesLock, port_allocator, portLock, dirs, markers,
          events, cpc, setup_config, minecraft_instance, dpc, dreq, response,
          port_calls, usedUuids, now>>

NoConfig == [name |-> <<>>, port |-> 0, uuid |-> -1, path |-> <<>>,
             requester |-> NoRequester]
NoInstance == [uuid |-> -1, name |-> <<>>, port |-> 0, path |-> <<>>,
               state |-> "none", creation_time |-> -1,
               max_player_count |-> 0]
NoResponse == [handler |-> "none", request |-> <<>>, status |-> "none",
               body |-> <<>>]
NoDelete == [uuid |-> -1, requester |-> NoRequester, result |-> "none",
             instance_path |-> <<>>]

Init ==
    /\ instances = <<>>
    /\ instancesLock = NoTask
    /\ port_allocator = {}
    /\ portLock = NoTask
    /\ dirs = {}
    /\ markers = {}
    /\ events = [t \in Tasks |-> <<>>]
    /\ cpc = [c \in Creations |-> "idle"]
    /\ setup_config = [c \in Creations |-> NoConfig]
    /\ minecraft_instance = [c \in Creations |-> NoInstance]
    /\ dpc = [d \in Deleters |-> "idle"]
    /\ dreq = [d \in Deleters |-> NoDelete]
    /\ response = NoResponse
    /\ port_calls = [t \in Tasks |-> <<>>]
    /\ usedUuids = {}
    /\ now = 0

\* ---------------------------------------------------------------- helpers
Range(f) == {f[x] : x \in DOMAIN f}

\* The orders in which a HashMap's iterator may yield the keys in S.
Orders(S) ==
    {o \in [1..Cardinality(S) -> S] :
        \A i, j \in DOMAIN o : i # j => o[i] # o[j]}

\* The uuids the next InstanceUuid::default() calls may return: fresh ones.
Supplies ==
    {s \in UNION {[1..n -> Uuids \ usedUuids] : n \in 0..MaxRegen} :
        \A i, j \in DOMAIN s : i # j => s[i] # s[j]}

\* The handler returns `status` and `body`; `request` is what it read of the
\* request by then: the requester, then the name or the uuid.
Respond(handler, request, status, body) ==
    response' = [handler |-> handler, request |-> request, status |-> status,
                 body |-> body]

\* A step that returns nothing to a client.
Silent == response' = NoResponse

\* event_broadcaster.send(Event{..}): the result is dropped (let _ =)
Send(task, event) == events' = [events EXCEPT ![task] = Append(@, event)]

\* Snowflake::default(): a new id at each call; the k-th one a task draws
Snowflake(task, k) == <<task, k>>

ProgressionStart(event_id, producer_id, caused_by) ==
    [kind |-> "ProgressionStart", event_id |-> event_id,
     producer_id |-> producer_id, success |-> TRUE, caused_by |-> caused_by]

ProgressionEnd(event_id, success, caused_by) ==
    [kind |-> "ProgressionEnd", event_id |-> event_id,
     producer_id |-> -1, success |-> success, caused_by |-> caused_by]

\* port_allocator.add_port(port)
add_port(allocator, port) == allocator \cup {port}

\* port_allocator.deallocate(port)
deallocate(allocator, port) == allocator \ {port}

\* instance.get_instance_info()
InstanceInfo(instance) ==
    [uuid |-> instance.uuid, name |-> instance.name, port |-> instance.port,
     creation_time |-> instance.creation_time]

\* tokio::fs::remove_dir_all(path) can succeed only on a directory that exists
CanRemoveDir(path, ok) == ok => path \in dirs

\* tokio::fs::remove_file(path.join(".lodestone_config"))
CanRemoveMarker(path, ok) == ok => path \in markers

\* ------------------------------------------------ create_minecraft_instance
\* The while loop of the scan: new uuids until the path differs from `path`.
RECURSIVE RegenerateWhile(_, _, _)
RegenerateWhile(path, config, supply) ==
    IF path # config.path
    THEN [config |-> config, supply |-> supply, ok |-> TRUE]
    ELSE IF supply = <<>>
    THEN [config |-> config, supply |-> supply, ok |-> FALSE]
    ELSE RegenerateWhile(
            path,
            [config EXCEPT !.uuid = Head(supply),
                           !.path = RegeneratedPath(config.name, Head(supply))],
            Tail(supply))

\* for (_, instance) in state.instances.lock().await.iter() { if path == .. }
RECURSIVE ScanInstances(_, _, _)
ScanInstances(order, config, supply) ==
    IF order = <<>>
    THEN [config |-> config, supply |-> supply, ok |-> TRUE]
    ELSE LET path == instances[Head(order)].path
             r == IF path = config.path
                  THEN RegenerateWhile(path, config, supply)
                  ELSE [config |-> config, supply |-> supply, ok |-> TRUE]
         IN IF r.ok THEN ScanInstances(Tail(order), r.config, r.supply) ELSE r

\* CreateCheck without the length test of line 163.
CreateCheckNoLimit(token, name) ==
    LET requester == try_auth(token) IN
    IF requester = NoRequester THEN "Unauthorized"
    ELSE IF ~can_perform_action(requester, <<"CreateInstance">>)
    THEN "PermissionDenied"
    ELSE IF name = <<>> THEN "MalformedRequest"
    ELSE "Ok"

\* The checks before the scan: the error a request is rejected with, or "Ok".
CreateCheck(token, name) ==
    LET requester == try_auth(token) IN
    IF requester = NoRequester THEN "Unauthorized"
    ELSE IF ~can_perform_action(requester, <<"CreateInstance">>)
    THEN "PermissionDenied"
    ELSE IF name = <<>> THEN "MalformedRequest"
    ELSE IF Len(name) > NameLimit THEN "MalformedRequest"
    ELSE "Ok"

\* Lines 169-187 and 281: the scan under the registry lock, the spawn of the
\* creation task and the response. `uuid` is what InstanceUuid::default()
\* returned in SetupConfig::from, `supply` what it returns in the scan,
\* `order` the order in which the map is iterated.
CreateAccepted(c, requester, name, port, uuid, order, supply) ==
    LET config == [name |-> name, port |-> port, uuid |-> uuid,
                   path |-> FirstPath(name, uuid), requester |-> requester]
        r == ScanInstances(order, config, supply)
    IN
    /\ uuid \notin Range(supply)
    /\ r.ok
    /\ r.supply = <<>>
    /\ cpc' = [cpc EXCEPT ![c] = "spawned"]
    /\ setup_config' = [setup_config EXCEPT ![c] = r.config]
    /\ usedUuids' = usedUuids \cup {uuid} \cup Range(supply)
    /\ Respond("create_minecraft_instance", <<requester, name, port>>, "Ok",
               <<r.config.uuid>>)

\* Lines 134-282: authenticate, authorize, sanitize, SetupConfig::from,
\* validate, and for a valid request the scan and the spawn. A rejected
\* request takes no lock.
create_minecraft_instance(c) ==
    /\ cpc[c] = "idle"
    /\ \A b \in Creations : b < c => cpc[b] # "idle"
    /\ \E token \in Tokens, rawname \in RawNames :
        LET name == sanitize(rawname)
            check == CreateCheck(token, name)
        IN
        IF check # "Ok"
        THEN /\ Respond("create_minecraft_instance",
                        IF check = "MalformedRequest"
                        THEN <<try_auth(token), name>>
                        ELSE <<try_auth(token)>>, check, <<>>)
             /\ UNCHANGED <<cpc, setup_config, usedUuids>>
        ELSE /\ instancesLock = NoTask
             /\ \E port \in Ports, uuid \in Uuids \ usedUuids,
                   order \in Orders(DOMAIN instances), supply \in Supplies :
                    CreateAccepted(c, try_auth(token), name, port, uuid,
                                   order, supply)
    /\ UNCHANGED <<instances, instancesLock, port_allocator, portLock, dirs,
                   markers, events, minecraft_instance, dpc, dreq, now,
                   port_calls>>

CausedBy(c) == setup_config[c].requester

\* The handle MinecraftInstance::new builds from the config.
NewInstance(config, creation_time) ==
    [uuid |-> config.uuid, name |-> config.name, port |-> config.port,
     path |-> config.path, state |-> "Stopped",
     creation_time |-> creation_time, max_player_count |-> 0]

\* Lines 198-219: the spawned task sends ProgressionStart and calls the driver.
TaskStart(c) ==
    /\ cpc[c] = "spawned"
    /\ Send(CTask(c), ProgressionStart(Snowflake(CTask(c), 0),
                                       setup_config[c].uuid, CausedBy(c)))
    /\ cpc' = [cpc EXCEPT ![c] = "provisioning"]
    /\ Silent
    /\ UNCHANGED <<instances, instancesLock, port_allocator, portLock, dirs,
                   markers, setup_config, minecraft_instance, dpc, dreq,
                   usedUuids, now, port_calls>>

\* Lines 220-244: MinecraftInstance::new returned Ok(v): the directory and its
\* .lodestone_config exist; ProgressionEnd{success: true} is sent.
ProvisionOk(c, creation_time) ==
    /\ cpc[c] = "provisioning"
    /\ creation_time \in {now, now + 1}
    /\ now' = creation_time
    /\ dirs' = dirs \cup {setup_config[c].path}
    /\ markers' = markers \cup {setup_config[c].path}
    /\ Send(CTask(c),
            ProgressionEnd(Snowflake(CTask(c), 0), TRUE, CausedBy(c)))
    /\ cpc' = [cpc EXCEPT ![c] = "allocate"]
    /\ minecraft_instance' = [minecraft_instance EXCEPT ![c] =
            NewInstance(setup_config[c], creation_time)]
    /\ Silent
    /\ UNCHANGED <<instances, instancesLock, port_allocator, portLock,
                   setup_config, dpc, dreq, port_calls, usedUuids>>

\* ProvisionErr without the `return` of line 269: the task goes on to the
\* port and the registry.
ProvisionErrNoReturn(c, dir_created) ==
    /\ cpc[c] = "provisioning"
    /\ dirs' = IF dir_created THEN dirs \cup {setup_config[c].path} ELSE dirs
    /\ Send(CTask(c),
            ProgressionEnd(Snowflake(CTask(c), 0), FALSE, CausedBy(c)))
    /\ cpc' = [cpc EXCEPT ![c] = "allocate"]
    /\ Silent
    /\ UNCHANGED <<instances, instancesLock, port_allocator, portLock, markers,
                   setup_config, minecraft_instance, dpc, dreq,
                   usedUuids, now, port_calls>>

\* Lines 245-258: MinecraftInstance::new returned Err(e), having created the
\* directory or not; ProgressionEnd{success: false} is sent.
ProvisionErr(c, dir_created) ==
    /\ cpc[c] = "provisioning"
    /\ dirs' = IF dir_created THEN dirs \cup {setup_config[c].path} ELSE dirs
    /\ Send(CTask(c),
            ProgressionEnd(Snowflake(CTask(c), 0), FALSE, CausedBy(c)))
    /\ cpc' = [cpc EXCEPT ![c] = "cleanup"]
    /\ Silent
    /\ UNCHANGED <<instances, instancesLock, port_allocator, portLock, markers,
                   setup_config, minecraft_instance, dpc, dreq,
                   usedUuids, now, port_calls>>

\* Cleanup with the error of remove_dir_all dropped instead of unwrapped.
CleanupSwallowsError(c, ok) ==
    /\ cpc[c] = "cleanup"
    /\ CanRemoveDir(setup_config[c].path, ok)
    /\ IF ok
       THEN /\ dirs' = dirs \ {setup_config[c].path}
            /\ markers' = markers \ {setup_config[c].path}
       ELSE UNCHANGED <<dirs, markers>>
    /\ cpc' = [cpc EXCEPT ![c] = "failed"]
    /\ Silent
    /\ UNCHANGED <<instances, instancesLock, port_allocator, portLock, events,
                   setup_config, minecraft_instance, dpc, dreq,
                   usedUuids, now, port_calls>>

\* Lines 259-269: remove_dir_all(setup_config.path) .. .unwrap(); return
Cleanup(c, ok) ==
    /\ cpc[c] = "cleanup"
    /\ CanRemoveDir(setup_config[c].path, ok)
    /\ IF ok
       THEN /\ dirs' = dirs \ {setup_config[c].path}
            /\ markers' = markers \ {setup_config[c].path}
            /\ cpc' = [cpc EXCEPT ![c] = "failed"]
       ELSE /\ cpc' = [cpc EXCEPT ![c] = "panicked"]
            /\ UNCHANGED <<dirs, markers>>
    /\ Silent
    /\ UNCHANGED <<instances, instancesLock, port_allocator, portLock, events,
                   setup_config, minecraft_instance, dpc, dreq,
                   usedUuids, now, port_calls>>

\* AllocatePort without the add_port call of line 273.
AllocatePortNoAdd(c) ==
    /\ cpc[c] = "allocate"
    /\ portLock = NoTask
    /\ portLock' = CTask(c)
    /\ cpc' = [cpc EXCEPT ![c] = "insert"]
    /\ Silent
    /\ UNCHANGED <<instances, instancesLock, port_allocator, dirs, markers,
                   events, setup_config, minecraft_instance, dpc, dreq,
                   usedUuids, now, port_calls>>

\* Lines 272-273: the port lock is taken and kept; add_port
AllocatePort(c) ==
    /\ cpc[c] = "allocate"
    /\ portLock = NoTask
    /\ portLock' = CTask(c)
    /\ port_allocator' = add_port(port_allocator, setup_config[c].port)
    /\ port_calls' = [port_calls EXCEPT ![CTask(c)] =
            Append(@, <<"add_port", setup_config[c].port>>)]
    /\ cpc' = [cpc EXCEPT ![c] = "insert"]
    /\ Silent
    /\ UNCHANGED <<instances, instancesLock, dirs, markers, events,
                   setup_config, minecraft_instance, dpc, dreq,
                   usedUuids, now>>

\* instances.insert(uuid, instance)
MapInsert(map, uuid, instance) ==
    [u \in DOMAIN map \cup {uuid} |-> IF u = uuid THEN instance ELSE map[u]]

\* instances.remove(&uuid)
MapRemove(map, uuid) == [u \in DOMAIN map \ {uuid} |-> map[u]]

\* Lines 274-279: the registry lock is taken with the port lock still held,
\* the handle inserted, and both guards dropped at the end of the block.
InsertInstance(c) ==
    /\ cpc[c] = "insert"
    /\ instancesLock = NoTask
    /\ instances' = MapInsert(instances, setup_config[c].uuid,
                              minecraft_instance[c])
    /\ portLock' = NoTask
    /\ cpc' = [cpc EXCEPT ![c] = "done"]
    /\ Silent
    /\ UNCHANGED <<instancesLock, port_allocator, dirs, markers, events,
                   setup_config, minecraft_instance, dpc, dreq,
                   usedUuids, now, port_calls>>

\* ---------------------------------------------------------- delete_instance
\* The handler returns `result`, which drops its guards.
DeleteReturn(d, result) ==
    /\ dpc' = [dpc EXCEPT ![d] = "done"]
    /\ dreq' = [dreq EXCEPT ![d].result = result]
    /\ Respond("delete_instance", <<dreq[d].requester, dreq[d].uuid>>, result,
               <<>>)

\* DeleteCheck without the state test of line 310.
DeleteCheckIgnoresState(token, uuid) ==
    LET requester == try_auth(token) IN
    IF requester = NoRequester THEN "Unauthorized"
    ELSE IF ~can_perform_action(requester, <<"DeleteInstance">>)
    THEN "PermissionDenied"
    ELSE IF uuid \notin DOMAIN instances THEN "InstanceNotFound"
    ELSE "Ok"

\* The checks of lines 289-315 and 409-414: the error a request is rejected
\* with, or "Ok".
DeleteCheck(token, uuid) ==
    LET requester == try_auth(token) IN
    IF requester = NoRequester THEN "Unauthorized"
    ELSE IF ~can_perform_action(requester, <<"DeleteInstance">>)
    THEN "PermissionDenied"
    ELSE IF uuid \notin DOMAIN instances THEN "InstanceNotFound"
    ELSE IF instances[uuid].state # "Stopped" THEN "InvalidInstanceState"
    ELSE "Ok"

\* Lines 316-331: ProgressionStart is sent; the registry lock stays held.
DeleteAccepted(d, requester, uuid) ==
    /\ instancesLock' = DTask(d)
    /\ Send(DTask(d),
            ProgressionStart(Snowflake(DTask(d), 0), uuid, requester))
    /\ dpc' = [dpc EXCEPT ![d] = "remove_marker"]
    /\ dreq' = [dreq EXCEPT ![d] =
            [uuid |-> uuid, requester |-> requester, result |-> "none",
             instance_path |-> <<>>]]
    /\ Silent

\* Lines 284-331 and 409-414: authenticate, authorize, take the registry
\* lock; an absent uuid or an instance that is not Stopped ends the request,
\* otherwise the deletion starts.
delete_instance(d) ==
    /\ dpc[d] = "idle"
    /\ \A b \in Deleters : b < d => dpc[b] # "idle"
    /\ \E token \in Tokens, uuid \in Uuids :
        LET check == DeleteCheck(token, uuid) IN
        IF check \in {"Unauthorized", "PermissionDenied"}
        THEN /\ Respond("delete_instance", <<try_auth(token)>>, check, <<>>)
             /\ UNCHANGED <<instancesLock, events, dpc, dreq>>
        ELSE /\ instancesLock = NoTask
             /\ IF check # "Ok"
                THEN /\ Respond("delete_instance",
                                <<try_auth(token), uuid>>, check, <<>>)
                     /\ UNCHANGED <<instancesLock, events, dpc, dreq>>
                ELSE DeleteAccepted(d, try_auth(token), uuid)
    /\ UNCHANGED <<instances, port_allocator, portLock, dirs, markers, cpc,
                   setup_config, minecraft_instance, usedUuids, now,
                   port_calls>>

\* RemoveMarker with the error of remove_file dropped instead of returned.
RemoveMarkerIgnoresError(d, ok) ==
    LET path == instances[dreq[d].uuid].path IN
    /\ dpc[d] = "remove_marker"
    /\ CanRemoveMarker(path, ok)
    /\ markers' = IF ok THEN markers \ {path} ELSE markers
    /\ dpc' = [dpc EXCEPT ![d] = "deallocate"]
    /\ Silent
    /\ UNCHANGED <<instancesLock, events, dreq>>
    /\ UNCHANGED <<instances, port_allocator, portLock, dirs, cpc,
                   setup_config, minecraft_instance, usedUuids, now,
                   port_calls>>

\* RemoveMarker with the registry guard dropped once the marker is removed,
\* not at line 366.
RemoveMarkerDropsLock(d, ok) ==
    LET path == instances[dreq[d].uuid].path IN
    /\ dpc[d] = "remove_marker"
    /\ CanRemoveMarker(path, ok)
    /\ IF ok
       THEN /\ markers' = markers \ {path}
            /\ dpc' = [dpc EXCEPT ![d] = "deallocate"]
            /\ Silent
            /\ instancesLock' = NoTask
            /\ UNCHANGED <<events, dreq>>
       ELSE /\ Send(DTask(d), ProgressionEnd(Snowflake(DTask(d), 1), FALSE,
                                             dreq[d].requester))
            /\ DeleteReturn(d, "FailedToRemoveFileOrDir")
            /\ instancesLock' = NoTask
            /\ UNCHANGED markers
    /\ UNCHANGED <<instances, port_allocator, portLock, dirs, cpc,
                   setup_config, minecraft_instance, usedUuids, now,
                   port_calls>>

\* Lines 332-358: remove_file(path.join(".lodestone_config")); on an error
\* ProgressionEnd{success: false} is sent under a new Snowflake and the
\* handler returns FailedToRemoveFileOrDir.
RemoveMarker(d, ok) ==
    LET path == instances[dreq[d].uuid].path IN
    /\ dpc[d] = "remove_marker"
    /\ CanRemoveMarker(path, ok)
    /\ IF ok
       THEN /\ markers' = markers \ {path}
            /\ dpc' = [dpc EXCEPT ![d] = "deallocate"]
            /\ Silent
            /\ UNCHANGED <<instancesLock, events, dreq>>
       ELSE /\ Send(DTask(d), ProgressionEnd(Snowflake(DTask(d), 1), FALSE,
                                             dreq[d].requester))
            /\ DeleteReturn(d, "FailedToRemoveFileOrDir")
            /\ instancesLock' = NoTask
            /\ UNCHANGED markers
    /\ UNCHANGED <<instances, port_allocator, portLock, dirs, cpc,
                   setup_config, minecraft_instance, usedUuids, now,
                   port_calls>>

\* DeallocatePort with the deallocate call of lines 359-363 left out.
DeallocatePortSkipped(d) ==
    /\ dpc[d] = "deallocate"
    /\ portLock = NoTask
    /\ dpc' = [dpc EXCEPT ![d] = "remove"]
    /\ Silent
    /\ UNCHANGED <<instances, instancesLock, port_allocator, portLock, dirs,
                   markers, events, cpc, setup_config, minecraft_instance,
                   dreq, usedUuids, now, port_calls>>

\* Lines 359-363: the port lock is taken for deallocate(instance.port()),
\* with the registry lock held.
DeallocatePort(d) ==
    /\ dpc[d] = "deallocate"
    /\ portLock = NoTask
    /\ port_allocator' = deallocate(port_allocator,
                                    instances[dreq[d].uuid].port)
    /\ port_calls' = [port_calls EXCEPT ![DTask(d)] =
            Append(@, <<"deallocate", instances[dreq[d].uuid].port>>)]
    /\ dpc' = [dpc EXCEPT ![d] = "remove"]
    /\ Silent
    /\ UNCHANGED <<instances, instancesLock, portLock, dirs, markers, events,
                   cpc, setup_config, minecraft_instance, dreq, usedUuids, now>>

\* RemoveEntry without the instances.remove(&uuid) of line 365.
RemoveEntryKeepsEntry(d) ==
    /\ dpc[d] = "remove"
    /\ dreq' = [dreq EXCEPT ![d].instance_path = instances[dreq[d].uuid].path]
    /\ instancesLock' = NoTask
    /\ dpc' = [dpc EXCEPT ![d] = "remove_dir"]
    /\ Silent
    /\ UNCHANGED <<instances, port_allocator, portLock, dirs, markers, events,
                   cpc, setup_config, minecraft_instance, usedUuids, now,
                   port_calls>>

\* Lines 364-366: instance_path is read, the entry removed, the lock dropped.
RemoveEntry(d) ==
    /\ dpc[d] = "remove"
    /\ dreq' = [dreq EXCEPT ![d].instance_path = instances[dreq[d].uuid].path]
    /\ instances' = MapRemove(instances, dreq[d].uuid)
    /\ instancesLock' = NoTask
    /\ dpc' = [dpc EXCEPT ![d] = "remove_dir"]
    /\ Silent
    /\ UNCHANGED <<port_allocator, portLock, dirs, markers, events, cpc,
                   setup_config, minecraft_instance, usedUuids, now,
                   port_calls>>

\* Lines 367-407: remove_dir_all(instance_path); ProgressionEnd carries the
\* outcome under progression_id, and the outcome is the handler's result.
RemoveDir(d, ok) ==
    LET path == dreq[d].instance_path IN
    /\ dpc[d] = "remove_dir"
    /\ CanRemoveDir(path, ok)
    /\ IF ok
       THEN /\ dirs' = dirs \ {path}
            /\ markers' = markers \ {path}
       ELSE UNCHANGED <<dirs, markers>>
    /\ Send(DTask(d), ProgressionEnd(Snowflake(DTask(d), 0), ok,
                                     dreq[d].requester))
    /\ DeleteReturn(d, IF ok THEN "Ok" ELSE "FailedToRemoveFileOrDir")
    /\ UNCHANGED <<instances, instancesLock, port_allocator, portLock, cpc,
                   setup_config, minecraft_instance, usedUuids, now,
                   port_calls>>

\* ------------------------------------------- get_instance_list / _info
\* list_of_configs.sort_by(|a, b| a.creation_time.cmp(&b.creation_time)): a
\* stable sort; `sorted` is in order, `info` goes after its last equal.
RECURSIVE SortedInsert(_, _)
SortedInsert(sorted, info) ==
    IF sorted = <<>> THEN <<info>>
    ELSE IF sorted[Len(sorted)].creation_time <= info.creation_time
    THEN Append(sorted, info)
    ELSE Append(SortedInsert(SubSeq(sorted, 1, Len(sorted) - 1), info),
                sorted[Len(sorted)])

\* get_instance_list without the sort_by of line 50.
SortByCreationTimeSkipped(list) == list

RECURSIVE SortByCreationTime(_)
SortByCreationTime(list) ==
    IF list = <<>> THEN <<>>
    ELSE SortedInsert(SortByCreationTime(SubSeq(list, 1, Len(list) - 1)),
                      list[Len(list)])

RECURSIVE ListOfConfigsUnfiltered(_, _)
\* ListOfConfigs without the can_perform_action test of line 45.
ListOfConfigsUnfiltered(requester, order) ==
    IF order = <<>> THEN <<>>
    ELSE <<InstanceInfo(instances[Head(order)])>>
            \o ListOfConfigsUnfiltered(requester, Tail(order))

\* Lines 41-48: the loop over instances.values() pushing what may be viewed.
RECURSIVE ListOfConfigs(_, _)
ListOfConfigs(requester, order) ==
    IF order = <<>> THEN <<>>
    ELSE LET instance == instances[Head(order)]
             rest == ListOfConfigs(requester, Tail(order))
         IN IF can_perform_action(requester, <<"ViewInstance", instance.uuid>>)
            THEN <<InstanceInfo(instance)>> \o rest
            ELSE rest

\* get_instance_list's result for a token and an iteration order of the map.
InstanceList(token, order) ==
    IF try_auth(token) = NoRequester
    THEN [status |-> "Unauthorized", body |-> <<>>]
    ELSE [status |-> "Ok",
          body |-> SortByCreationTime(ListOfConfigs(try_auth(token), order))]

\* Lines 28-53
get_instance_list(token, order) ==
    /\ try_auth(token) # NoRequester => instancesLock = NoTask
    /\ Respond("get_instance_list", <<try_auth(token)>>,
               InstanceList(token, order).status,
               InstanceList(token, order).body)
    /\ UNCHANGED <<instances, instancesLock, port_allocator, portLock, dirs,
                   markers, events, cpc, setup_config, minecraft_instance,
                   dpc, dreq,
                   usedUuids, now, port_calls>>

\* get_instance_info's result for a token and a uuid.
InstanceInfoOf(token, uuid) ==
    IF try_auth(token) = NoRequester
    THEN [status |-> "Unauthorized", body |-> <<>>]
    ELSE IF uuid \notin DOMAIN instances
    THEN [status |-> "InstanceNotFound", body |-> <<>>]
    ELSE IF ~can_perform_action(try_auth(token),
                                <<"ViewInstance", instances[uuid].uuid>>)
    THEN [status |-> "Unauthorized", body |-> <<>>]
    ELSE [status |-> "Ok", body |-> <<InstanceInfo(instances[uuid])>>]

\* Lines 55-84
get_instance_info(token, uuid) ==
    /\ try_auth(token) # NoRequester => instancesLock = NoTask
    /\ Respond("get_instance_info", <<try_auth(token), uuid>>,
               InstanceInfoOf(token, uuid).status,
               InstanceInfoOf(token, uuid).body)
    /\ UNCHANGED <<instances, instancesLock, port_allocator, portLock, dirs,
                   markers, events, cpc, setup_config, minecraft_instance,
                   dpc, dreq,
                   usedUuids, now, port_calls>>

\* ------------------------------------------------- the instance's own state
\* A server-control request starts a Stopped instance it finds in the registry.
StartInstance(uuid) ==
    /\ instancesLock = NoTask
    /\ uuid \in DOMAIN instances
    /\ instances[uuid].state = "Stopped"
    /\ instances' = [instances EXCEPT ![uuid].state = "Running"]
    /\ Silent
    /\ UNCHANGED <<instancesLock, port_allocator, portLock, dirs, markers,
                   events, cpc, setup_config, minecraft_instance, dpc, dreq,
                   usedUuids, now, port_calls>>

\* A Running instance's server process stops.
StopInstance(uuid) ==
    /\ uuid \in DOMAIN instances
    /\ instances[uuid].state = "Running"
    /\ instances' = [instances EXCEPT ![uuid].state = "Stopped"]
    /\ Silent
    /\ UNCHANGED <<instancesLock, port_allocator, portLock, dirs, markers,
                   events, cpc, setup_config, minecraft_instance, dpc, dreq,
                   usedUuids, now, port_calls>>

\* ------------------------------------------------------- instance_players.rs
PlayerCounts == 0..MaxPlayers

\* A player handler takes no AuthBearer: whatever token the client sent is
\* never read. It locks the registry and looks the uuid up; `body` is what
\* the instance answers.
PlayerRequest(handler, token, uuid, body) ==
    /\ instancesLock = NoTask
    /\ IF uuid \in DOMAIN instances
       THEN Respond(handler, <<try_auth(token), uuid>>, "Ok", body)
       ELSE Respond(handler, <<try_auth(token), uuid>>, "InstanceNotFound",
                    <<>>)
    /\ UNCHANGED <<instancesLock, port_allocator, portLock, dirs, markers,
                   events, cpc, setup_config, minecraft_instance, dpc, dreq,
                   usedUuids, now, port_calls>>

\* instance_players.rs lines 14-30
get_player_count(token, uuid, count) ==
    /\ PlayerRequest("get_player_count", token, uuid, <<count>>)
    /\ UNCHANGED instances

\* instance_players.rs lines 32-48
get_max_player_count(token, uuid) ==
    /\ PlayerRequest("get_max_player_count", token, uuid,
                     IF uuid \in DOMAIN instances
                     THEN <<instances[uuid].max_player_count>> ELSE <<>>)
    /\ UNCHANGED instances

\* instance_players.rs lines 50-67
set_max_player_count(token, uuid, count) ==
    /\ PlayerRequest("set_max_player_count", token, uuid, <<>>)
    /\ instances' = IF uuid \in DOMAIN instances
                    THEN [instances EXCEPT ![uuid].max_player_count = count]
                    ELSE instances

\* instance_players.rs lines 69-85
get_player_list(token, uuid, count) ==
    /\ PlayerRequest("get_player_list", token, uuid, <<1..count>>)
    /\ UNCHANGED instances

\* ------------------------------------------------------------ specification
Next ==
    \/ \E c \in Creations : create_minecraft_instance(c)
    \/ \E c \in Creations : TaskStart(c)
    \/ \E c \in Creations, creation_time \in {now, now + 1} :
            ProvisionOk(c, creation_time)
    \/ \E c \in Creations, dir_created \in BOOLEAN :
            ProvisionErr(c, dir_created)
    \/ \E c \in Creations, ok \in BOOLEAN : Cleanup(c, ok)
    \/ \E c \in Creations : AllocatePort(c)
    \/ \E c \in Creations : InsertInstance(c)
    \/ \E d \in Deleters : delete_instance(d)
    \/ \E d \in Deleters, ok \in BOOLEAN : RemoveMarker(d, ok)
    \/ \E d \in Deleters : DeallocatePort(d)
    \/ \E d \in Deleters : RemoveEntry(d)
    \/ \E d \in Deleters, ok \in BOOLEAN : RemoveDir(d, ok)
    \/ \E uuid \in DOMAIN instances : StartInstance(uuid)
    \/ \E uuid \in DOMAIN instances : StopInstance(uuid)

Spec == Init /\ [][Next]_vars

\* The same with clients that also query the registry.
NextQuery ==
    \/ Next
    \/ \E token \in Tokens, order \in Orders(DOMAIN instances) :
            get_instance_list(token, order)
    \/ \E token \in Tokens, uuid \in Uuids : get_instance_info(token, uuid)

SpecQuery == Init /\ [][NextQuery]_vars

\* Clients that create instances and ask about their players.
NextPlayers ==
    \/ \E c \in Creations : create_minecraft_instance(c)
    \/ \E c \in Creations : TaskStart(c)
    \/ \E c \in Creations, creation_time \in {now, now + 1} :
            ProvisionOk(c, creation_time)
    \/ \E c \in Creations, dir_created \in BOOLEAN :
            ProvisionErr(c, dir_created)
    \/ \E c \in Creations, ok \in BOOLEAN : Cleanup(c, ok)
    \/ \E c \in Creations : AllocatePort(c)
    \/ \E c \in Creations : InsertInstance(c)
    \/ \E token \in Tokens, uuid \in Uuids, count \in PlayerCounts :
            get_player_count(token, uuid, count)
    \/ \E token \in Tokens, uuid \in Uuids : get_max_player_count(token, uuid)
    \/ \E token \in Tokens, uuid \in Uuids, count \in PlayerCounts :
            set_max_player_count(token, uuid, count)
    \/ \E token \in Tokens, uuid \in Uuids, count \in PlayerCounts :
            get_player_list(token, uuid, count)

SpecPlayers == Init /\ [][NextPlayers]_vars

\* The steps of a creation task and of a deletion that wait for no lock.
CreationStep(c) ==
    \/ TaskStart(c)
    \/ \E creation_time \in {now, now + 1} : ProvisionOk(c, creation_time)
    \/ \E dir_created \in BOOLEAN : ProvisionErr(c, dir_created)
    \/ \E ok \in BOOLEAN : Cleanup(c, ok)

DeletionStep(d) ==
    \/ \E ok \in BOOLEAN : RemoveMarker(d, ok)
    \/ RemoveEntry(d)
    \/ \E ok \in BOOLEAN : RemoveDir(d, ok)

\* The tokio runtime polls every ready task, and a tokio Mutex serves its
\* waiters in order: a step that needs no lock is taken if it stays possible,
\* a step that waits for a lock is taken if the lock is free again and again.
Fairness ==
    /\ \A c \in Creations :
        /\ WF_vars(CreationStep(c))
        /\ SF_vars(AllocatePort(c))
        /\ SF_vars(InsertInstance(c))
    /\ \A d \in Deleters :
        /\ WF_vars(DeletionStep(d))
        /\ SF_vars(DeallocatePort(d))

SpecFair == Init /\ [][Next]_vars /\ Fairness

\* ------------------------------------------------------------------ claims
Kinds(task) == [i \in DOMAIN events[task] |-> events[task][i].kind]

\* The events of a task are one ProgressionStart, then one ProgressionEnd
\* with the given outcome under the Start's event id.
OnePairWith(log, success) ==
    /\ Len(log) = 2
    /\ log[1].kind = "ProgressionStart"
    /\ log[2].kind = "ProgressionEnd"
    /\ log[2].success = success
    /\ log[2].event_id = log[1].event_id

\* The uuids a client sees in a list response body.
ListedUuids(body) == {body[i].uuid : i \in DOMAIN body}

\* No list and no info request shows the uuid to anyone.
Invisible(uuid) ==
    /\ uuid \notin DOMAIN instances
    /\ \A token \in Tokens :
        /\ InstanceInfoOf(token, uuid).status # "Ok"
        /\ \A order \in Orders(DOMAIN instances) :
            uuid \notin ListedUuids(InstanceList(token, order).body)

\* C1: every uuid in the registry belongs to a creation whose driver build
\* returned Ok and whose task has finished; a creation that is provisioning or
\* whose provisioning failed is in no list and no info result, and the task of
\* a failed creation has made no call on the port allocator.
C1_RegisteredOnlyAfterSuccess ==
    /\ \A u \in DOMAIN instances : \E c \in Creations :
        /\ setup_config[c].uuid = u
        /\ cpc[c] = "done"
        /\ minecraft_instance[c] # NoInstance
        /\ OnePairWith(events[CTask(c)], TRUE)
    /\ \A c \in Creations :
        cpc[c] \in {"spawned", "provisioning", "cleanup", "failed", "panicked"}
            => Invisible(setup_config[c].uuid)
    /\ \A c \in Creations :
        cpc[c] \in {"cleanup", "failed", "panicked"}
            => port_calls[CTask(c)] = <<>>

\* One creation is registered while another one failed and was cleaned up,
\* its port not in use.
C1_Witness ==
    \E c1, c2 \in Creations :
        /\ cpc[c1] = "done"
        /\ setup_config[c1].uuid \in DOMAIN instances
        /\ cpc[c2] = "failed"
        /\ setup_config[c2].port \notin port_allocator

\* C2: when the task of a creation whose provisioning succeeded finishes, the
\* registry holds one entry for its uuid, its port is in use, and the task
\* sent one ProgressionStart and one ProgressionEnd, success = true, under
\* the same event id.
C2_SuccessfulCreation ==
    [][\A c \in Creations :
        (cpc[c] = "insert" /\ cpc'[c] = "done") =>
            /\ setup_config[c].uuid \in DOMAIN instances'
            /\ Cardinality({u \in DOMAIN instances' :
                    instances'[u].uuid = setup_config[c].uuid}) = 1
            /\ instances'[setup_config[c].uuid] = minecraft_instance[c]
            /\ setup_config[c].port \in port_allocator'
            /\ OnePairWith(events'[CTask(c)], TRUE)]_vars

\* A creation task has finished with its instance registered on its port.
C2_Witness ==
    \E c \in Creations :
        /\ cpc[c] = "done"
        /\ setup_config[c].uuid \in DOMAIN instances
        /\ instances[setup_config[c].uuid].port = setup_config[c].port
        /\ setup_config[c].port \in port_allocator
        /\ OnePairWith(events[CTask(c)], TRUE)

\* C3: a creation whose provisioning fails sends ProgressionEnd with
\* success = false and then removes the directory: when its task ends the
\* directory is gone, and no step of it touched the registry or the port
\* set; when the removal fails the task ends abnormally, and an ended task
\* takes no further step.
C3_FailedCreation ==
    [][\A c \in Creations :
        /\ (cpc[c] = "provisioning" /\ cpc'[c] # "allocate") =>
            /\ cpc'[c] \in {"provisioning", "cleanup"}
            /\ cpc'[c] = "cleanup" =>
                /\ Kinds(CTask(c))' = <<"ProgressionStart", "ProgressionEnd">>
                /\ ~events'[CTask(c)][2].success
                /\ UNCHANGED <<instances, port_allocator>>
        /\ cpc[c] = "cleanup" =>
            /\ cpc'[c] \in {"cleanup", "failed", "panicked"}
            /\ cpc'[c] # "cleanup" =>
                /\ UNCHANGED <<instances, port_allocator, events>>
                /\ setup_config[c].uuid \notin DOMAIN instances'
            /\ cpc'[c] = "failed" => setup_config[c].path \notin dirs'
        /\ cpc[c] \in {"failed", "panicked"} =>
            /\ cpc'[c] = cpc[c]
            /\ port_calls'[CTask(c)] = <<>>
            /\ setup_config[c].uuid \notin DOMAIN instances']_vars

\* One failed creation ended with its directory removed, another one ended
\* abnormally.
C3_Witness ==
    \E c1, c2 \in Creations :
        /\ cpc[c1] = "failed"
        /\ setup_config[c1].path \notin dirs
        /\ OnePairWith(events[CTask(c1)], FALSE)
        /\ cpc[c2] = "panicked"

\* C4: no two instances in the registry have the same port.
C4_NoSharedPort ==
    \A u, v \in DOMAIN instances :
        u # v => instances[u].port # instances[v].port

\* A delete request that ended in its first step, with what it asked for.
DeleteRejected(requester, uuid) ==
    /\ response'.handler = "delete_instance"
    /\ response'.request = <<requester, uuid>>
    /\ dpc' = dpc

\* C5: a delete request by a requester holding DeleteInstance for a
\* registered instance that is not Stopped returns InvalidInstanceState and
\* changes neither the registry, the port set nor the filesystem; the
\* instance is still listed; and no deletion starts on such an instance.
C5_DeleteNotStopped ==
    [][/\ \A uuid \in DOMAIN instances :
            (/\ DeleteRejected("owner", uuid)
             /\ instances[uuid].state # "Stopped") =>
                /\ response'.status = "InvalidInstanceState"
                /\ UNCHANGED <<instances, port_allocator, dirs, markers,
                               port_calls, events>>
                /\ \A order \in Orders(DOMAIN instances') :
                    uuid \in ListedUuids(
                        InstanceList("owner_token", order).body)'
       /\ \A d \in Deleters :
            (dpc[d] = "idle" /\ dpc'[d] # "idle") =>
                /\ dreq'[d].uuid \in DOMAIN instances
                /\ instances[dreq'[d].uuid].state = "Stopped"]_vars

\* A delete request for a Running instance was just answered with
\* InvalidInstanceState.
C5_Witness ==
    /\ response.handler = "delete_instance"
    /\ response.status = "InvalidInstanceState"
    /\ response.request[2] \in DOMAIN instances
    /\ instances[response.request[2]].state = "Running"

Committed(d) ==
    \/ dpc[d] \in {"deallocate", "remove", "remove_dir"}
    \/ dpc[d] = "done" /\ dreq[d].instance_path # <<>>

\* What the owner gets from info on the uuid of the deletion d.
OwnerInfoStatus(d) == InstanceInfoOf("owner_token", dreq[d].uuid).status

\* C7: once the marker file is removed, the delete deallocates the port and
\* removes the registry entry, whatever the directory removal does; it
\* returns Ok with the directory gone or FailedToRemoveFileOrDir, and from
\* the removal of the entry on info(uuid) is InstanceNotFound.
C7_CommittedDelete ==
    [][\A d \in Deleters :
        LET uuid == dreq[d].uuid IN
        /\ dpc[d] = "deallocate" =>
            /\ dpc'[d] \in {"deallocate", "remove"}
            /\ dpc'[d] = "remove" =>
                /\ instances[uuid].port \notin port_allocator'
                /\ port_calls'[DTask(d)]
                    = <<<<"deallocate", instances[uuid].port>>>>
        /\ dpc[d] = "remove" =>
            /\ dpc'[d] \in {"remove", "remove_dir"}
            /\ dpc'[d] = "remove_dir" => uuid \notin DOMAIN instances'
        /\ dpc[d] = "remove_dir" =>
            /\ dpc'[d] \in {"remove_dir", "done"}
            /\ dpc'[d] = "done" =>
                /\ response'.handler = "delete_instance"
                /\ response'.request = <<dreq[d].requester, uuid>>
                /\ response'.status \in {"Ok", "FailedToRemoveFileOrDir"}
                /\ response'.status = "Ok" => dreq[d].instance_path \notin dirs'
                /\ dreq[d].instance_path \in dirs' =>
                    response'.status = "FailedToRemoveFileOrDir"
        /\ (dpc'[d] \in {"remove_dir", "done"} /\ Committed(d)') =>
            /\ dreq'[d].uuid \notin DOMAIN instances'
            /\ OwnerInfoStatus(d)' = "InstanceNotFound"]_vars

\* A delete returned FailedToRemoveFileOrDir on the directory removal: the
\* directory is still on disk and the instance is gone from the registry.
C7_Witness ==
    \E d \in Deleters :
        /\ dpc[d] = "done"
        /\ dreq[d].result = "FailedToRemoveFileOrDir"
        /\ dreq[d].instance_path \in dirs
        /\ dreq[d].uuid \notin DOMAIN instances
        /\ InstanceInfoOf("owner_token", dreq[d].uuid).status
            = "InstanceNotFound"

\* The task has sent its ProgressionEnd, on whatever branch.
Ended(task) ==
    \/ \E c \in Creations :
        /\ task = CTask(c)
        /\ cpc[c] \in {"allocate", "insert", "done", "cleanup", "failed",
                       "panicked"}
    \/ \E d \in Deleters : task = DTask(d) /\ dpc[d] = "done"

\* C8: every creation task and every delete past its checks sends one
\* ProgressionStart and then one ProgressionEnd under the Start's event id,
\* on every branch.
C8_OneStartOneEnd ==
    \A task \in Tasks :
        LET log == events[task] IN
        /\ Len(log) <= 2
        /\ Len(log) >= 1 => log[1].kind = "ProgressionStart"
        /\ Len(log) = 2 =>
            /\ log[2].kind = "ProgressionEnd"
            /\ log[2].event_id = log[1].event_id
        /\ Ended(task) => Len(log) = 2

\* The requester may view the instance.
MayView(requester, uuid) ==
    can_perform_action(requester, <<"ViewInstance", uuid>>)

\* C9: a list request of an authenticated requester is answered Ok with the
\* registered instances the requester may view and no other; an info request
\* for a registered instance the requester may not view is answered
\* Unauthorized or PermissionDenied, without the info.
C9_ViewFilter ==
    /\ (response.handler = "get_instance_list"
            /\ response.request[1] # NoRequester) =>
        /\ response.status = "Ok"
        /\ ListedUuids(response.body)
            = {u \in DOMAIN instances : MayView(response.request[1], u)}
    /\ (/\ response.handler = "get_instance_info"
        /\ response.request[1] # NoRequester
        /\ response.request[2] \in DOMAIN instances
        /\ ~MayView(response.request[1], response.request[2])) =>
            /\ response.status \in {"Unauthorized", "PermissionDenied"}
            /\ response.body = <<>>

\* The member listed the registry: one instance is shown, another one, which
\* the member may not view, is not.
C9_Witness ==
    /\ response.handler = "get_instance_list"
    /\ response.request[1] = "member"
    /\ response.body # <<>>
    /\ \E u \in DOMAIN instances : ~MayView("member", u)

\* The creation was accepted: it has a SetupConfig.
Accepted(c) == cpc[c] # "idle"

\* C10: no two registered instances have the same install path, and two
\* creations with the same sanitized name have distinct uuids and distinct
\* install paths.
C10_UniquePaths ==
    /\ \A u, v \in DOMAIN instances :
        u # v => instances[u].path # instances[v].path
    /\ \A c1, c2 \in Creations :
        (/\ c1 # c2
         /\ Accepted(c1)
         /\ Accepted(c2)
         /\ setup_config[c1].name = setup_config[c2].name) =>
            /\ setup_config[c1].uuid # setup_config[c2].uuid
            /\ setup_config[c1].path # setup_config[c2].path

\* The driver returned Ok to the creation task c.
ProvisionSucceeded(c) == cpc[c] \in {"allocate", "insert", "done"}

\* The task c has inserted its instance (InsertInstance is the only step that
\* ends a creation in "done").
Inserted(c) == cpc[c] = "done"

\* C11: under fair scheduling, a creation whose provisioning succeeded has
\* sent its ProgressionEnd with success = true and eventually inserts its
\* instance into the registry, whatever other creations and deletions do.
C11_EventuallyRegistered ==
    \A c \in Creations :
        ProvisionSucceeded(c) ~>
            (Inserted(c) /\ OnePairWith(events[CTask(c)], TRUE))

\* The handlers that read or write the instance registry.
RegistryHandlers ==
    {"get_instance_list", "get_instance_info", "create_minecraft_instance",
     "delete_instance", "get_player_count", "get_max_player_count",
     "set_max_player_count", "get_player_list"}

\* C12: a request to a handler of the registry whose bearer token does not
\* authenticate is answered Unauthorized, with nothing disclosed, and the
\* step takes no registry lock and changes no registry entry.
C12_AuthenticateFirst ==
    [][(/\ response'.handler \in RegistryHandlers
        /\ response'.request[1] = NoRequester) =>
            /\ response'.status = "Unauthorized"
            /\ response'.body = <<>>
            /\ UNCHANGED <<instances, instancesLock>>]_vars

\* The errors a create or a delete request returns from its checks.
CheckErrors ==
    {"Unauthorized", "PermissionDenied", "MalformedRequest",
     "InstanceNotFound"}

\* The step spawned no task, sent no event and left the registry, the port
\* set and the filesystem as they were.
NoSideEffect ==
    UNCHANGED <<instances, instancesLock, port_allocator, portLock, dirs,
                markers, events, cpc, setup_config, minecraft_instance, dpc,
                dreq, port_calls>>

\* C13: a create or delete request that is rejected by its checks returns
\* the error of the first check it fails and has no side effect; a create
\* is accepted only from a requester with CreateInstance and with a
\* sanitized name of 1 to 100 characters, a delete only from a requester with
\* DeleteInstance and for a registered uuid.
C13_RejectedWithoutEffect ==
    [][/\ (/\ response'.handler = "create_minecraft_instance"
           /\ response'.status \in CheckErrors) =>
            LET requester == response'.request[1] IN
            /\ NoSideEffect
            /\ response'.body = <<>>
            /\ response'.status = "Unauthorized" <=> requester = NoRequester
            /\ response'.status = "PermissionDenied" =>
                ~can_perform_action(requester, <<"CreateInstance">>)
            /\ response'.status = "MalformedRequest" =>
                /\ can_perform_action(requester, <<"CreateInstance">>)
                /\ \/ response'.request[2] = <<>>
                   \/ Len(response'.request[2]) > NameLimit
            /\ response'.status # "InstanceNotFound"
       /\ (/\ response'.handler = "delete_instance"
           /\ response'.status \in CheckErrors) =>
            LET requester == response'.request[1] IN
            /\ NoSideEffect
            /\ response'.body = <<>>
            /\ response'.status = "Unauthorized" <=> requester = NoRequester
            /\ response'.status = "PermissionDenied" =>
                ~can_perform_action(requester, <<"DeleteInstance">>)
            /\ response'.status = "InstanceNotFound" =>
                /\ can_perform_action(requester, <<"DeleteInstance">>)
                /\ response'.request[2] \notin DOMAIN instances
            /\ response'.status # "MalformedRequest"
       /\ \A c \in Creations :
            (cpc[c] = "idle" /\ cpc'[c] # "idle") =>
                /\ can_perform_action(setup_config'[c].requester,
                                      <<"CreateInstance">>)
                /\ setup_config'[c].name # <<>>
                /\ Len(setup_config'[c].name) <= NameLimit
                /\ response'.status = "Ok"
       /\ \A d \in Deleters :
            (dpc[d] = "idle" /\ dpc'[d] # "idle") =>
                /\ can_perform_action(dreq'[d].requester,
                                      <<"DeleteInstance">>)
                /\ dreq'[d].uuid \in DOMAIN instances]_vars

\* A create request with a name of more than 100 characters was just
\* answered MalformedRequest, with an instance registered and its port in
\* use.
C13_Witness ==
    /\ response.handler = "create_minecraft_instance"
    /\ response.status = "MalformedRequest"
    /\ Len(response.request[2]) > NameLimit
    /\ DOMAIN instances # {}
    /\ port_allocator # {}

\* The sequence of infos is in ascending order of creation time.
Ascending(body) ==
    \A i, j \in DOMAIN body :
        i < j => body[i].creation_time <= body[j].creation_time

\* C14: the body of a list response is in ascending order of creation time
\* and holds the info of every registered instance the requester may view,
\* once, and nothing else.
C14_ListSortedAndExact ==
    (response.handler = "get_instance_list"
        /\ response.request[1] # NoRequester) =>
        LET viewable == {u \in DOMAIN instances :
                            MayView(response.request[1], u)}
        IN
        /\ response.status = "Ok"
        /\ Ascending(response.body)
        /\ Len(response.body) = Cardinality(viewable)
        /\ \A u \in viewable :
            \E i \in DOMAIN response.body :
                response.body[i] = InstanceInfo(instances[u])
        /\ \A i \in DOMAIN response.body : response.body[i].uuid \in viewable

\* The owner listed two instances created at different times.
C14_Witness ==
    /\ response.handler = "get_instance_list"
    /\ response.request[1] = "owner"
    /\ Len(response.body) = 2
    /\ response.body[1].creation_time < response.body[2].creation_time

\* The next step of the task is an operation on the filesystem.
AtFilesystemIO(task) ==
    \/ \E c \in Creations :
        task = CTask(c) /\ cpc[c] \in {"provisioning", "cleanup"}
    \/ \E d \in Deleters :
        task = DTask(d) /\ dpc[d] \in {"remove_marker", "remove_dir"}

\* C15: no task is about to remove a file or a directory, or to provision
\* one, while it holds the registry lock.
C15_NoIOUnderRegistryLock ==
    \A task \in Tasks : AtFilesystemIO(task) => instancesLock # task

\* The task is suspended on state.instances.lock().await, or has the lock.
WaitsForOrHoldsRegistry(task) ==
    \/ instancesLock = task
    \/ \E c \in Creations : task = CTask(c) /\ cpc[c] = "insert"

\* C16: a task that holds the port-allocator lock neither holds the registry
\* lock nor waits for it: the port lock is released right after add_port or
\* deallocate.
C16_PortLockOnlyAroundCall ==
    \A task \in Tasks : portLock = task => ~WaitsForOrHoldsRegistry(task)

\* The order in which a creation and a deletion go through their steps.
CreateOrder ==
    {<<"idle", "spawned">>, <<"spawned", "provisioning">>,
     <<"provisioning", "allocate">>, <<"provisioning", "cleanup">>,
     <<"cleanup", "failed">>, <<"cleanup", "panicked">>,
     <<"allocate", "insert">>, <<"insert", "done">>}

DeleteOrder ==
    {<<"idle", "remove_marker">>, <<"remove_marker", "deallocate">>,
     <<"remove_marker", "done">>, <<"deallocate", "remove">>,
     <<"remove", "remove_dir">>, <<"remove_dir", "done">>}

\* The creation c, the deletion d, goes from one step to another.
CreateGoes(c, from, to) == cpc[c] = from /\ cpc'[c] = to
DeleteGoes(d, from, to) == dpc[d] = from /\ dpc'[d] = to

\* C17: a creation calls add_port only after its provisioning succeeded and
\* before it inserts its instance; a deletion removes the marker file, then
\* deallocates the port, then removes the registry entry, then removes the
\* directory, each step touching nothing of the later ones, and does none
\* of the later steps when the marker removal failed.
C17_StepOrder ==
    [][/\ \A c \in Creations :
            LET task == CTask(c)
                uuid == setup_config[c].uuid
            IN
            /\ cpc[c] # cpc'[c] => <<cpc[c], cpc'[c]>> \in CreateOrder
            /\ port_calls'[task] # port_calls[task] =>
                /\ CreateGoes(c, "allocate", "insert")
                /\ OnePairWith(events[task], TRUE)
                /\ uuid \notin DOMAIN instances'
                /\ port_calls'[task]
                    = <<<<"add_port", setup_config[c].port>>>>
            /\ CreateGoes(c, "insert", "done") =>
                /\ port_calls[task] # <<>>
                /\ uuid \notin DOMAIN instances
                /\ uuid \in DOMAIN instances'
                /\ UNCHANGED port_allocator
       /\ \A d \in Deleters :
            LET task == DTask(d)
                uuid == dreq[d].uuid
            IN
            /\ dpc[d] # dpc'[d] => <<dpc[d], dpc'[d]>> \in DeleteOrder
            /\ DeleteGoes(d, "remove_marker", "deallocate") =>
                /\ instances[uuid].path \in markers
                /\ markers' = markers \ {instances[uuid].path}
                /\ port_calls[task] = <<>>
                /\ UNCHANGED <<instances, port_allocator, dirs, port_calls>>
            /\ DeleteGoes(d, "remove_marker", "done") =>
                UNCHANGED <<instances, port_allocator, dirs, markers,
                            port_calls>>
            /\ port_calls'[task] # port_calls[task] =>
                /\ DeleteGoes(d, "deallocate", "remove")
                /\ port_calls'[task]
                    = <<<<"deallocate", instances[uuid].port>>>>
                /\ UNCHANGED <<instances, dirs, markers>>
            /\ DeleteGoes(d, "remove", "remove_dir") =>
                /\ port_calls[task] # <<>>
                /\ instances' = MapRemove(instances, uuid)
                /\ UNCHANGED <<port_allocator, dirs, markers>>
            /\ DeleteGoes(d, "remove_dir", "done") =>
                /\ port_calls[task] # <<>>
                /\ uuid \notin DOMAIN instances
                /\ UNCHANGED <<instances, port_allocator>>
            /\ (dpc[d] = "done" /\ dreq[d].instance_path = <<>>) =>
                /\ dpc'[d] = "done"
                /\ port_calls'[task] = <<>>
       /\ ~(DOMAIN instances' \subseteq DOMAIN instances) =>
            \E c \in Creations : CreateGoes(c, "insert", "done")
       /\ ~(DOMAIN instances \subseteq DOMAIN instances') =>
            \E d \in Deleters : DeleteGoes(d, "remove", "remove_dir")
       /\ ~(port_allocator \subseteq port_allocator') =>
            \E d \in Deleters : DeleteGoes(d, "deallocate", "remove")
       /\ ~(port_allocator' \subseteq port_allocator) =>
            \E c \in Creations : CreateGoes(c, "allocate", "insert")
       /\ ~(dirs \subseteq dirs') =>
            \/ \E d \in Deleters : DeleteGoes(d, "remove_dir", "done")
            \/ \E c \in Creations : CreateGoes(c, "cleanup", "failed")]_vars

\* A creation went through add_port and the insert, and a deletion through
\* all of its steps, the directory removed.
C17_Witness ==
    /\ \E c \in Creations :
        /\ cpc[c] = "done"
        /\ port_calls[CTask(c)] = <<<<"add_port", setup_config[c].port>>>>
    /\ \E d \in Deleters :
        /\ dpc[d] = "done"
        /\ dreq[d].result = "Ok"
        /\ Len(port_calls[DTask(d)]) = 1
        /\ dreq[d].instance_path \notin dirs

\* The creation was accepted and its task has not inserted the instance nor
\* given up.
PendingCreation(c) ==
    cpc[c] \in {"spawned", "provisioning", "allocate", "insert"}

\* The last step answered a delete request for the uuid of the pending
\* creation c.
DeleteAnsweredWhilePending(c) ==
    /\ PendingCreation(c)
    /\ response.handler = "delete_instance"
    /\ Len(response.request) = 2
    /\ response.request[2] = setup_config[c].uuid

\* The provisioning of c failed: the task registers nothing.
ProvisionFailed(c) == cpc[c] \in {"cleanup", "failed", "panicked"}

\* The safety half of C18: the delete is rejected and changes nothing.
PendingDeleteRejected ==
    /\ \A c \in Creations :
        DeleteAnsweredWhilePending(c)' =>
            /\ response'.status = "InstanceNotFound"
            /\ NoSideEffect
    /\ \A d \in Deleters, c \in Creations :
        (dpc[d] = "idle" /\ dpc'[d] # "idle" /\ PendingCreation(c)) =>
            dreq'[d].uuid # setup_config[c].uuid

\* C18: a delete request for the uuid of a creation that has not inserted
\* its instance yet is rejected and changes nothing, and the creation goes
\* on: unless its provisioning fails, its instance is registered afterwards.
C18_DeleteDuringCreation ==
    /\ [][PendingDeleteRejected]_vars
    /\ \A c \in Creations :
        DeleteAnsweredWhilePending(c) ~> (Inserted(c) \/ ProvisionFailed(c))

\* The task is suspended on state.instances.lock().await.
WaitsForRegistry(task) ==
    \E c \in Creations : task = CTask(c) /\ cpc[c] = "insert"

\* The task is suspended on state.port_allocator.lock().await.
WaitsForPort(task) ==
    \/ \E c \in Creations : task = CTask(c) /\ cpc[c] = "allocate"
    \/ \E d \in Deleters : task = DTask(d) /\ dpc[d] = "deallocate"

\* C20: in no reachable state does a task hold the port-allocator lock and
\* wait for the registry lock while another task holds the registry lock
\* and waits for the port-allocator lock.
C20_NoLockCycle ==
    ~ \E t1, t2 \in Tasks :
        /\ portLock = t1
        /\ WaitsForRegistry(t1)
        /\ instancesLock = t2
        /\ WaitsForPort(t2)

\* The deletions d1 and d2 are two requests for the same uuid that both
\* passed the checks of delete_instance.
SameTarget(d1, d2) ==
    /\ d1 # d2
    /\ dpc[d1] # "idle"
    /\ dpc[d2] # "idle"
    /\ dreq[d1].uuid = dreq[d2].uuid

\* The deletion d holds the registry lock from the lookup to the removal of
\* the entry.
OneHold(d) ==
    dpc[d] \in {"remove_marker", "deallocate", "remove"} =>
        instancesLock = DTask(d)

\* C21 as claimed: of two delete requests for the same uuid at most one
\* removes the marker file, deallocates the port and removes the entry, each
\* under one hold of the registry lock, and the other one is answered
\* InstanceNotFound without an event: no two requests for one uuid pass the
\* lookup. (A request that waits for the registry lock has done nothing yet:
\* its step is taken when it gets the lock.)
C21_OtherSeesAbsent ==
    /\ \A d \in Deleters : OneHold(d)
    /\ \A d1, d2 \in Deleters :
        SameTarget(d1, d2) =>
            /\ ~(Committed(d1) /\ Committed(d2))
            /\ events[DTask(d1)] = <<>> \/ events[DTask(d2)] = <<>>

\* A delete request for the uuid was just answered from the lookup.
DeleteAnswered(uuid) ==
    /\ response.handler = "delete_instance"
    /\ Len(response.request) = 2
    /\ response.request[2] = uuid

\* C21 as amended: of two delete requests for the same uuid at most one
\* removes the marker file, deallocates the port and removes the entry, each
\* under one hold of the registry lock; once one has removed the marker
\* file, a request for that uuid that gets the registry lock is answered
\* InstanceNotFound, sends no event and changes nothing.
C21_OtherSeesAbsentOnceCommitted ==
    [][/\ \A d \in Deleters : OneHold(d)'
       /\ \A d1, d2 \in Deleters :
            /\ SameTarget(d1, d2)' => ~(Committed(d1)' /\ Committed(d2)')
            /\ (/\ d1 # d2
                /\ Committed(d1)
                /\ dpc[d2] = "idle"
                /\ dpc'[d2] # "idle") => dreq'[d2].uuid # dreq[d1].uuid
       /\ \A d1 \in Deleters :
            (/\ Committed(d1)
             /\ dpc' = dpc
             /\ DeleteAnswered(dreq[d1].uuid)') =>
                /\ response'.status = "InstanceNotFound"
                /\ NoSideEffect]_vars

\* A deletion has removed the entry and is removing the directory when
\* another delete request for the same uuid is answered InstanceNotFound.
C21_Witness ==
    \E d1 \in Deleters :
        /\ dpc[d1] = "remove_dir"
        /\ DeleteAnswered(dreq[d1].uuid)
        /\ response.status = "InstanceNotFound"
        /\ events[DTask(d1)] # <<>>

\* No creation task and no delete request is in progress.
Quiescent ==
    /\ \A c \in Creations : cpc[c] \in {"idle", "done", "failed", "panicked"}
    /\ \A d \in Deleters : dpc[d] \in {"idle", "done"}

\* C22: when nothing is in progress, the port of every registered instance
\* is in the in-use set, and every port of the in-use set (all of them were
\* added by creations) is the port of a registered instance.
C22_PortsMatchRegistry ==
    Quiescent =>
        /\ \A u \in DOMAIN instances : instances[u].port \in port_allocator
        /\ \A port \in port_allocator :
            \E u \in DOMAIN instances : instances[u].port = port

====
